---------------------------- MODULE Spec2Model ----------------------------
(***************************************************************************)
(* A model of olapie/awskit:                                               *)
(*   - Router.Handle, the dispatcher of lambdahttp/lambda.go and           *)
(*     lambda/lambda.go (the two differ in log texts, in the not-found     *)
(*     message and in where the trace id is read);                         *)
(*   - CreateRequestVerifier and getMessageHashForSigning, the request     *)
(*     verifier and its two canonicalization profiles;                     *)
(*   - S3Bucket.Delete and S3Bucket.BatchDelete.                           *)
(* Each part has its own specification over the module's variables:        *)
(* Spec (dispatch), SpecVerify (verifier), SpecSign (canonicalization)     *)
(* and SpecS3 (storage).                                                   *)
(***************************************************************************)
EXTENDS Integers, Sequences, FiniteSets

VARIABLES
    pkg,        \* the package in use: "lambdahttp" or "lambda"
    \* ---- dispatcher ----
    routes,     \* the route table: (method, path) -> handler chain
    pc,         \* per invocation: where Handle is
    req,        \* per invocation: the request
    ctx,        \* per invocation: the request-scoped context
    resp,       \* per invocation: the named result resp
    panicking,  \* per invocation: the panic in flight, if any
    invoked,    \* per invocation: handlers the dispatcher itself invoked
    outcome,    \* per invocation: what the handler chain did (history)
    lastLog,    \* per invocation: the last log record emitted
    \* ---- request verifier ----
    vreq,       \* the request handed to the verifier
    vorig,      \* the same request as the verifier received it
    vsteps,     \* the verifier's steps in the order they ran
    vresp,      \* the verifier's return value
    vdone,      \* whether the verifier has returned
    \* ---- signing ----
    signedReq,  \* the request the signer canonicalized and signed
    candReq,    \* the candidate request presented for verification
    verdict,    \* the result of verifying candReq: "none", "accept", "reject"
    \* ---- storage ----
    objects,    \* the ids the backend currently holds
    op,         \* the storage operation in progress
    result      \* the error value the operation returned

routerVars == <<routes, pc, req, ctx, resp, panicking, invoked, outcome, lastLog>>
verifyVars == <<vreq, vorig, vsteps, vresp, vdone>>
signVars   == <<signedReq, candReq, verdict>>
s3Vars     == <<objects, op, result>>
vars == <<pkg, routerVars, verifyVars, signVars, s3Vars>>

----------------------------------------------------------------------------
(* Bounds and input sets *)

MaxProcs == 2
Procs == 1 .. MaxProcs

Packages == {"lambdahttp", "lambda"}

Methods == {"GET", "POST"}
Paths   == {"/a", "/b"}
Traces  == {"t1", "t2"}

----------------------------------------------------------------------------
(* Responses and errors *)

KeyTraceID == "X-Trace-Id"

\* A *Response. nil |-> TRUE is the nil pointer; hasHeaders |-> FALSE is a nil
\* Headers map; headers is the map as a set of <<key, value>> pairs.
NilResponse ==
    [nil |-> TRUE, status |-> 0, hasHeaders |-> FALSE, headers |-> {}, body |-> ""]

\* Error(err): the structured error response of an error value [code, msg].
Error(err) ==
    [nil |-> FALSE, status |-> err.code, hasHeaders |-> FALSE, headers |-> {},
     body |-> err.msg]

NotImplemented(msg) == [code |-> 501, msg |-> msg]
NotFound(msg)       == [code |-> 404, msg |-> msg]
NotAcceptable(msg)  == [code |-> 406, msg |-> msg]
\* errors.New: an error with no status of its own, rendered as Internal.
ErrorsNew(msg)      == [code |-> 500, msg |-> msg]

\* The value recover() yields when nothing is recovered, and, in a build with
\* the pre-1.21 panic semantics (go.mod declares go 1.19), for panic(nil).
NilValue == "<nil>"

\* fmt.Sprint of a panic value (the values here are strings).
Sprint(v) == v

\* xhttp.SetTraceID(headers, id): a map assignment.
SetTraceID(headers, id) ==
    {kv \in headers : kv[1] # KeyTraceID} \cup {<<KeyTraceID, id>>}

----------------------------------------------------------------------------
(* Handlers *)

\* What the handlers of the model do when run.
\*   "ok"    returns a 200 response with a nil header map
\*   "hdr"   returns a 400 response that already has headers, a trace id included
\*   "none"  returns nil
\*   "panic" panics
\*   "pass"  a middleware: answers itself or calls Next
OkResponse ==
    [nil |-> FALSE, status |-> 200, hasHeaders |-> FALSE, headers |-> {}, body |-> "ok"]
HdrResponse ==
    [nil |-> FALSE, status |-> 400, hasHeaders |-> TRUE,
     headers |-> {<<KeyTraceID, "stale">>, <<"Content-Type", "text/plain">>},
     body |-> "bad"]

\* panic(v): "boom" is an ordinary value; panic(nil) is recovered as nil under
\* the pre-1.21 semantics and as a *runtime.PanicNilError under the later ones.
PanicValues == {"boom", NilValue, "panic called with nil argument"}

NoOutcome == [kind |-> "none", resp |-> NilResponse, value |-> NilValue, calls |-> <<>>]
Returned(r, cs) == [kind |-> "return", resp |-> r, value |-> NilValue, calls |-> cs]
Panicked(v, cs) == [kind |-> "panic", resp |-> NilResponse, value |-> v, calls |-> cs]

\* The outcomes of running a handler chain from its first handler: what it
\* returns or panics with, and the handlers that ran. router.Next on an
\* exhausted chain returns the zero value, nil.
RECURSIVE RunChain(_)
RunChain(chain) ==
    IF chain = <<>> THEN {Returned(NilResponse, <<>>)}
    ELSE LET h == Head(chain)
             own == CASE h = "ok"    -> {Returned(OkResponse, <<>>)}
                      [] h = "hdr"   -> {Returned(HdrResponse, <<>>)}
                      [] h = "none"  -> {Returned(NilResponse, <<>>)}
                      [] h = "panic" -> {Panicked(v, <<>>) : v \in PanicValues}
                      [] h = "pass"  ->
                           {Returned(Error(NotAcceptable("invalid signature")), <<>>)}
                           \cup RunChain(Tail(chain))
         IN  {[o EXCEPT !.calls = <<h>> \o o.calls] : o \in own}

\* The route tables a Router is built with.
RouteTables ==
    { [k \in {<<"GET", "/a">>, <<"POST", "/a">>, <<"GET", "/b">>} |->
          CASE k = <<"GET", "/a">>  -> <<"ok">>
            [] k = <<"POST", "/a">> -> <<"none">>
            [] k = <<"GET", "/b">>  -> <<"panic">>],
      [k \in {<<"GET", "/a">>, <<"POST", "/b">>, <<"GET", "/b">>} |->
          CASE k = <<"GET", "/a">>  -> <<"pass", "hdr">>
            [] k = <<"POST", "/b">> -> <<"pass", "panic">>
            [] k = <<"GET", "/b">>  -> <<"pass", "none">>],
      [k \in {} |-> <<>>] }

\* Match called with the path alone, whatever the method.
MatchIgnoringMethod(table, method, path) ==
    IF \E k \in DOMAIN table : k[2] = path
    THEN table[CHOOSE k \in DOMAIN table : k[2] = path]
    ELSE <<>>

\* r.Match(method, path): the endpoint's chain, or <<>> for a nil endpoint.
Match(table, method, path) ==
    IF <<method, path>> \in DOMAIN table THEN table[<<method, path>>] ELSE <<>>


----------------------------------------------------------------------------
(* Router.Handle *)

Requests == [method : Methods, path : Paths, trace : Traces]
NoRequest == [method |-> "", path |-> "", trace |-> ""]
NoContext == [traceID |-> "", next |-> <<>>]
NoPanic   == [state |-> "none", value |-> NilValue]

\* BuildContext(ctx, request): the request-scoped context, carrying the
\* request's trace identifier.
BuildContext(r) == [traceID |-> r.trace, next |-> <<>>]

\* router.WithNextHandler(ctx, handler.Next())
WithNextHandler(c, chain) == [c EXCEPT !.next = Tail(chain)]

\* xcontext.GetTraceID(ctx) in the deferred function of invocation p
\* (lambda/lambda.go reads it once, before the defer, into a local).
GetTraceID(p) == ctx[p].traceID

\* The message of the not-found error: lambdahttp formats the method and the
\* path into it, lambda does not.
NotFoundMessage(r) ==
    IF pkg = "lambdahttp"
    THEN "endpoint not found: " \o r.method \o " " \o r.path
    ELSE "endpoint not found"

\* HandlerResult without the nil check.
HandlerResultUnchecked(r) == r

\* Lines 75-79: the value the matched branch returns for what the handler
\* returned.
HandlerResult(r) ==
    IF r.nil THEN Error(NotImplemented("no response from handler")) ELSE r

\* recover() in the deferred function.
Recover(p) == IF panicking[p].state = "raised" THEN panicking[p].value ELSE NilValue

\* The deferred function's recovery branch: the response for a recovered
\* panic value.
RecoveredResponse(msg) == Error(ErrorsNew(Sprint(msg)))

\* The deferred function's last lines: make the header map and set the trace id.
WithTraceHeader(r, id) ==
    [r EXCEPT !.hasHeaders = TRUE, !.headers = SetTraceID(r.headers, id)]

\* The log record of a completed request.
EndLog(r) ==
    IF r.status < 400 THEN "End info"
    ELSE IF Len(r.body) < 1024 THEN "End error with body" ELSE "End error"

\* Lines 34-45: build the context, log the start.
HandleStart(p) ==
    /\ pc[p] = "idle"
    /\ \E r \in Requests :
         /\ req' = [req EXCEPT ![p] = r]
         /\ ctx' = [ctx EXCEPT ![p] = BuildContext(r)]
    /\ lastLog' = [lastLog EXCEPT ![p] = "Start"]
    /\ pc' = [pc EXCEPT ![p] = "dispatch"]
    /\ UNCHANGED <<routes, resp, panicking, invoked, outcome>>

\* Lines 71-81: match the route and run its handler chain. A panic of the
\* chain leaves resp unassigned and starts unwinding into the deferred function.
HandleDispatch(p) ==
    /\ pc[p] = "dispatch"
    /\ LET chain == Match(routes, req[p].method, req[p].path) IN
         IF chain # <<>>
         THEN /\ ctx' = [ctx EXCEPT ![p] = WithNextHandler(ctx[p], chain)]
              /\ invoked' = [invoked EXCEPT ![p] = <<Head(chain)>>]
              /\ \E o \in RunChain(chain) :
                   /\ outcome' = [outcome EXCEPT ![p] = o]
                   /\ IF o.kind = "panic"
                      THEN /\ panicking' = [panicking EXCEPT
                                              ![p] = [state |-> "raised", value |-> o.value]]
                           /\ resp' = resp
                      ELSE /\ resp' = [resp EXCEPT ![p] = HandlerResult(o.resp)]
                           /\ panicking' = panicking
         ELSE /\ resp' = [resp EXCEPT ![p] = Error(NotFound(NotFoundMessage(req[p])))]
              /\ UNCHANGED <<ctx, invoked, outcome, panicking>>
    /\ pc' = [pc EXCEPT ![p] = "deferred"]
    /\ UNCHANGED <<routes, req, lastLog>>

\* Lines 47-69: the deferred function, then the return to the caller. A nil
\* resp dereferenced at line 54 is a run-time panic that leaves Handle.
HandleDeferred(p) ==
    /\ pc[p] = "deferred"
    /\ LET msg == Recover(p) IN
         IF msg # NilValue
         THEN /\ lastLog' = [lastLog EXCEPT ![p] = "Panic"]
              /\ resp' = [resp EXCEPT ![p] = RecoveredResponse(msg)]
              /\ panicking' = [panicking EXCEPT ![p].state = "recovered"]
              /\ pc' = [pc EXCEPT ![p] = "returned"]
         ELSE IF resp[p].nil
         THEN /\ panicking' = [panicking EXCEPT ![p].state = "escaped"]
              /\ pc' = [pc EXCEPT ![p] = "crashed"]
              /\ UNCHANGED <<resp, lastLog>>
         ELSE /\ lastLog' = [lastLog EXCEPT ![p] = EndLog(resp[p])]
              /\ resp' = [resp EXCEPT ![p] = WithTraceHeader(resp[p], GetTraceID(p))]
              /\ pc' = [pc EXCEPT ![p] = "returned"]
              /\ UNCHANGED panicking
    /\ UNCHANGED <<routes, req, ctx, invoked, outcome>>

Init ==
    /\ pkg \in Packages
    /\ routes \in RouteTables
    /\ pc = [p \in Procs |-> "idle"]
    /\ req = [p \in Procs |-> NoRequest]
    /\ ctx = [p \in Procs |-> NoContext]
    /\ resp = [p \in Procs |-> NilResponse]
    /\ panicking = [p \in Procs |-> NoPanic]
    /\ invoked = [p \in Procs |-> <<>>]
    /\ outcome = [p \in Procs |-> NoOutcome]
    /\ lastLog = [p \in Procs |-> ""]
    /\ vreq = 0 /\ vorig = 0 /\ vsteps = <<>> /\ vresp = NilResponse /\ vdone = FALSE
    /\ signedReq = 0 /\ candReq = 0 /\ verdict = "none"
    /\ objects = {} /\ op = 0 /\ result = 0

Next ==
    \E p \in Procs :
        \/ /\ HandleStart(p)    /\ UNCHANGED <<pkg, verifyVars, signVars, s3Vars>>
        \/ /\ HandleDispatch(p) /\ UNCHANGED <<pkg, verifyVars, signVars, s3Vars>>
        \/ /\ HandleDeferred(p) /\ UNCHANGED <<pkg, verifyVars, signVars, s3Vars>>

Spec == Init /\ [][Next]_vars

----------------------------------------------------------------------------
(* Properties of Router.Handle *)

Finished(p) == pc[p] \in {"returned", "crashed"}
RouteKey(p) == <<req[p].method, req[p].path>>
TraceHeaders(r) == {kv \in r.headers : kv[1] = KeyTraceID}
OtherHeaders(r) == {kv \in r.headers : kv[1] # KeyTraceID}
IsPrefix(s, t) == Len(s) <= Len(t) /\ SubSeq(t, 1, Len(s)) = s
WithoutHeaders(r) == [r EXCEPT !.hasHeaders = FALSE, !.headers = {}]

\* C1: on every exit path of Handle (a handler's response, a nil response, no
\* route, a recovered panic) the response handed back has a non-nil header map
\* holding exactly one trace-id header, that of the request's own trace id.
C1_TraceHeaderOnEveryExit ==
    \A p \in Procs :
        pc[p] = "returned" =>
            /\ ~resp[p].nil
            /\ resp[p].hasHeaders
            /\ TraceHeaders(resp[p]) = {<<KeyTraceID, req[p].trace>>}

\* C2: when a handler of the matched chain panics, nothing propagates to the
\* caller: Handle returns normally, with the Internal response built from the
\* string form of the panic value.
C2_PanicNeverPropagates ==
    \A p \in Procs :
        (Finished(p) /\ outcome[p].kind = "panic") =>
            /\ pc[p] = "returned"
            /\ ~resp[p].nil
            /\ resp[p].status = 500
            /\ resp[p].body = Sprint(outcome[p].value)

\* C6: an unmatched (method, path) gets the NotFound response and no handler
\* runs; a matched one starts exactly the matched route's chain, the dispatcher
\* invoking its first handler once.
C6_DispatchMatchesOneRoute ==
    \A p \in Procs :
        pc[p] \in {"deferred", "returned", "crashed"} =>
            IF RouteKey(p) \notin DOMAIN routes
            THEN /\ invoked[p] = <<>>
                 /\ outcome[p] = NoOutcome
                 /\ pc[p] # "crashed"
                 /\ WithoutHeaders(resp[p]) = Error(NotFound(NotFoundMessage(req[p])))
            ELSE /\ invoked[p] = <<Head(routes[RouteKey(p)])>>
                 /\ outcome[p].calls # <<>>
                 /\ IsPrefix(outcome[p].calls, routes[RouteKey(p)])

C6_Witness ==
    \E p, q \in Procs :
        /\ pc[p] = "returned" /\ RouteKey(p) \notin DOMAIN routes
        /\ routes # <<>>
        /\ resp[p].status = 404
        /\ pc[q] = "returned" /\ RouteKey(q) \in DOMAIN routes
        /\ Len(outcome[q].calls) = 2

\* C7: when the chain returns normally, Handle returns a response and never
\* nil: the NotImplemented response if the chain returned nil, and otherwise
\* the chain's own response, its status, body and other headers untouched.
C7_NilBecomesNotImplemented ==
    \A p \in Procs :
        (Finished(p) /\ outcome[p].kind = "return") =>
            /\ pc[p] = "returned"
            /\ ~resp[p].nil
            /\ IF outcome[p].resp.nil
               THEN WithoutHeaders(resp[p]) =
                        Error(NotImplemented("no response from handler"))
               ELSE /\ resp[p].status = outcome[p].resp.status
                    /\ resp[p].body = outcome[p].resp.body
                    /\ OtherHeaders(resp[p]) = OtherHeaders(outcome[p].resp)

C7_Witness ==
    \E p, q \in Procs :
        /\ pc[p] = "returned" /\ outcome[p].kind = "return" /\ outcome[p].resp.nil
        /\ resp[p].status = 501
        /\ pc[q] = "returned" /\ outcome[q].kind = "return" /\ ~outcome[q].resp.nil
        /\ resp[q].status = 400 /\ OtherHeaders(resp[q]) # {}

\* What Handle does with request r when it runs by itself: the responses it
\* can return, "crash" standing for a panic that leaves Handle.
HandleAlone(table, r) ==
    LET chain == Match(table, r.method, r.path)
        id == BuildContext(r).traceID
    IN  IF chain = <<>>
        THEN {WithTraceHeader(Error(NotFound(NotFoundMessage(r))), id)}
        ELSE { IF o.kind = "panic"
               THEN IF o.value # NilValue
                    THEN RecoveredResponse(o.value)
                    ELSE [NilResponse EXCEPT !.body = "crash"]
               ELSE WithTraceHeader(HandlerResult(o.resp), id)
               : o \in RunChain(chain) }

\* Concurrent invocations do not touch each other's state: a finished
\* invocation has the result it has when run alone, no response carries a
\* trace id other than its own request's, and the route table stays as built.
DispatchIsolation ==
    \A p \in Procs :
        /\ pc[p] = "returned" =>
              /\ resp[p] \in HandleAlone(routes, req[p])
              /\ \A kv \in TraceHeaders(resp[p]) : kv[2] = req[p].trace
        /\ pc[p] = "crashed" =>
              [NilResponse EXCEPT !.body = "crash"] \in HandleAlone(routes, req[p])

\* C10: under any interleaving of concurrent Handle invocations each response
\* is the one the invocation produces alone, its trace-id header carries the
\* trace id of its own request, and no dispatch modifies the route table.
C10_ConcurrentDispatchIsolated ==
    /\ [](DispatchIsolation
          /\ \A p \in Procs :
                pc[p] = "returned" =>
                    TraceHeaders(resp[p]) = {<<KeyTraceID, req[p].trace>>})
    /\ [][routes' = routes]_vars

----------------------------------------------------------------------------
(* Request verifier *)

KeyTimestamp     == "X-Timestamp"
KeyContentType   == "Content-Type"
KeyAppID         == "X-App-Id"
KeyClientID      == "X-Client-Id"
KeyAuthorization == "Authorization"
HeaderKeys ==
    {KeyTraceID, KeyTimestamp, KeyContentType, KeyAppID, KeyClientID, KeyAuthorization}

\* xhttp.GetHeader: the header's value, "" when it is absent.
GetHeader(r, key) == r.hdr[key]

\* The canonical signing string of lambdahttp: plain concatenation of the
\* method, the path, the raw query, the trace id and the timestamp.
CanonicalHTTP(r) ==
    r.method \o r.path \o r.query
        \o GetHeader(r, KeyTraceID) \o GetHeader(r, KeyTimestamp)

\* The canonical signing string of lambda: plain concatenation of the method,
\* the path, the raw query and five headers.
CanonicalLambda(r) ==
    r.method \o r.path \o r.query
        \o GetHeader(r, KeyContentType) \o GetHeader(r, KeyAppID)
        \o GetHeader(r, KeyClientID) \o GetHeader(r, KeyTimestamp)
        \o GetHeader(r, KeyAuthorization)

\* Ideal hashes: two digests are equal only for equal inputs.
MD5(str)    == <<"md5", str>>
SHA256(str) == <<"sha256", str>>

getMessageHashForSigning(r) ==
    IF pkg = "lambdahttp" THEN MD5(CanonicalHTTP(r)) ELSE SHA256(CanonicalLambda(r))

\* The header fields each profile canonicalizes.
ProfileHeaders ==
    IF pkg = "lambdahttp"
    THEN {KeyTraceID, KeyTimestamp}
    ELSE {KeyContentType, KeyAppID, KeyClientID, KeyTimestamp, KeyAuthorization}

\* Ideal ECDSA: a signature is the pair of the signing key and the digest it
\* was made for, and verifies against that key's public half and that digest
\* only. Key pairs are named by one name for both halves.
Keys == {"k1", "k2"}
PubKey == "k1"
SignASN1(priv, digest) == [kind |-> "sig", key |-> priv, digest |-> digest]
VerifyASN1(pub, digest, sig) == sig.key = pub /\ sig.digest = digest

NoSign        == [kind |-> "missing", key |-> "", digest |-> <<>>]
MalformedSign == [kind |-> "malformed", key |-> "", digest |-> <<>>]

\* xhttp.CheckTimestamp: "" is a missing header, "x" a malformed one, "1" a
\* stale one and "9" a fresh one.
TimestampValues == {"", "x", "1", "9"}
CheckTimestamp(r) ==
    LET t == GetHeader(r, KeyTimestamp)
    IN  CASE t = ""  -> "missing"
          [] t = "x" -> "malformed"
          [] t = "1" -> "stale"
          [] OTHER   -> "ok"
TimestampError(r) == [code |-> 406, msg |-> "timestamp " \o CheckTimestamp(r)]

\* xhttp.DecodeSign: the signature bytes, or an error for a missing or
\* undecodable header.
DecodeSignFails(r) == r.sign.kind # "sig"
DecodeSignError(r) == [code |-> 400, msg |-> "sign " \o r.sign.kind]

\* RequestVerifier with the result of the ECDSA verification ignored.
RequestVerifierIgnoringVerify(r, pubKey) ==
    IF CheckTimestamp(r) # "ok"
    THEN [steps |-> <<"CheckTimestamp">>, end |-> "timestamp"]
    ELSE IF DecodeSignFails(r)
    THEN [steps |-> <<"CheckTimestamp", "DecodeSign">>, end |-> "decode"]
    ELSE [steps |-> <<"CheckTimestamp", "DecodeSign", "Hash", "VerifyASN1", "Next">>,
          end |-> "next"]

\* RequestVerifier with the signature decoded before the timestamp is checked.
RequestVerifierDecodingFirst(r, pubKey) ==
    IF DecodeSignFails(r)
    THEN [steps |-> <<"DecodeSign">>, end |-> "decode"]
    ELSE IF CheckTimestamp(r) # "ok"
    THEN [steps |-> <<"DecodeSign", "CheckTimestamp">>, end |-> "timestamp"]
    ELSE IF VerifyASN1(pubKey, getMessageHashForSigning(r), r.sign)
    THEN [steps |-> <<"DecodeSign", "CheckTimestamp", "Hash", "VerifyASN1", "Next">>,
          end |-> "next"]
    ELSE [steps |-> <<"DecodeSign", "CheckTimestamp", "Hash", "VerifyASN1">>,
          end |-> "invalid"]

\* The verifier's control flow for request r: the steps it runs, in order, and
\* how it ends ("timestamp", "decode", "invalid" or "next").
RequestVerifier(r, pubKey) ==
    IF CheckTimestamp(r) # "ok"
    THEN [steps |-> <<"CheckTimestamp">>, end |-> "timestamp"]
    ELSE IF DecodeSignFails(r)
    THEN [steps |-> <<"CheckTimestamp", "DecodeSign">>, end |-> "decode"]
    ELSE IF VerifyASN1(pubKey, getMessageHashForSigning(r), r.sign)
    THEN [steps |-> <<"CheckTimestamp", "DecodeSign", "Hash", "VerifyASN1", "Next">>,
          end |-> "next"]
    ELSE [steps |-> <<"CheckTimestamp", "DecodeSign", "Hash", "VerifyASN1">>,
          end |-> "invalid"]

\* What the next handler of the chain may return.
NextResponses == {OkResponse, HdrResponse, NilResponse}

\* The requests handed to the verifier: every timestamp, and a signature
\* header that is missing, malformed, made by either key for this request, or
\* made for another request.
BaseRequests ==
    [method : Methods, path : {"/a"}, query : {"", "q"},
     hdr : {[k \in HeaderKeys |-> IF k = KeyTimestamp THEN t ELSE "h"] :
                t \in TimestampValues}]
WithSign(r, sig) ==
    [method |-> r.method, path |-> r.path, query |-> r.query, hdr |-> r.hdr,
     sign |-> sig]
VerifierInputs ==
    UNION { { WithSign(r, NoSign), WithSign(r, MalformedSign),
              WithSign(r, SignASN1("k1", getMessageHashForSigning(r))),
              WithSign(r, SignASN1("k2", getMessageHashForSigning(r))),
              WithSign(r, SignASN1("k1",
                  getMessageHashForSigning([r EXCEPT !.path = "/other"]))) }
            : r \in BaseRequests }

\* The function CreateRequestVerifier returns, called on vreq.
VerifyRequest ==
    /\ ~vdone
    /\ LET v == RequestVerifier(vreq, PubKey) IN
         /\ vsteps' = v.steps
         /\ CASE v.end = "timestamp" -> vresp' = Error(TimestampError(vreq))
              [] v.end = "decode"    -> vresp' = Error(DecodeSignError(vreq))
              [] v.end = "next"      -> vresp' \in NextResponses
              [] v.end = "invalid"   ->
                    vresp' = Error(NotAcceptable("invalid signature"))
    /\ vdone' = TRUE
    /\ UNCHANGED <<vreq, vorig>>

\* The host hands the verifier another request.
ReceiveRequest ==
    /\ vdone
    /\ \E r \in VerifierInputs : vreq' = r /\ vorig' = r
    /\ vsteps' = <<>>
    /\ vresp' = NilResponse
    /\ vdone' = FALSE

InitVerify ==
    /\ pkg \in Packages
    /\ vreq \in VerifierInputs /\ vorig = vreq
    /\ vsteps = <<>> /\ vresp = NilResponse /\ vdone = FALSE
    /\ routes = <<>> /\ pc = <<>> /\ req = <<>> /\ ctx = <<>> /\ resp = <<>>
    /\ panicking = <<>> /\ invoked = <<>> /\ outcome = <<>> /\ lastLog = <<>>
    /\ signedReq = 0 /\ candReq = 0 /\ verdict = "none"
    /\ objects = {} /\ op = 0 /\ result = 0

NextVerify ==
    \/ /\ VerifyRequest  /\ UNCHANGED <<pkg, routerVars, signVars, s3Vars>>
    \/ /\ ReceiveRequest /\ UNCHANGED <<pkg, routerVars, signVars, s3Vars>>

SpecVerify == InitVerify /\ [][NextVerify]_vars

\* Whether all three checks pass for request r.
AllChecksPass(r) ==
    /\ CheckTimestamp(r) = "ok"
    /\ r.sign.kind = "sig"
    /\ r.sign.key = PubKey
    /\ r.sign.digest = getMessageHashForSigning(r)

NextInvoked == \E i \in 1 .. Len(vsteps) : vsteps[i] = "Next"

\* C3: the verifier hands the request to the next handler exactly when the
\* timestamp check, the signature decoding and the ECDSA verification all
\* pass; otherwise the next handler does not run, the verifier returns an
\* error response (NotAcceptable for a signature that does not verify) and the
\* request is as it was received.
C3_NextIffAllChecksPass ==
    vdone =>
        /\ NextInvoked <=> AllChecksPass(vorig)
        /\ vreq = vorig
        /\ ~NextInvoked =>
              /\ ~vresp.nil /\ vresp.status >= 400
              /\ (CheckTimestamp(vorig) = "ok" /\ vorig.sign.kind = "sig") =>
                    vresp.status = 406 /\ vresp.body = "invalid signature"

C3_Witness ==
    /\ vdone /\ ~NextInvoked
    /\ CheckTimestamp(vorig) = "ok" /\ vorig.sign.kind = "sig"
    /\ vorig.sign.key = PubKey
    /\ vresp.status = 406

\* C5: a request whose timestamp is missing, malformed or stale is rejected
\* with the timestamp error by the first step: the signature is not decoded,
\* no digest is computed and no ECDSA verification is attempted, whatever the
\* signature header holds.
C5_FreshnessFirst ==
    (vdone /\ CheckTimestamp(vorig) # "ok") =>
        /\ vsteps = <<"CheckTimestamp">>
        /\ vresp = Error(TimestampError(vorig))

C5_Witness ==
    /\ vdone /\ CheckTimestamp(vorig) = "stale"
    /\ vorig.sign = SignASN1(PubKey, getMessageHashForSigning(vorig))
    /\ vsteps = <<"CheckTimestamp">>

----------------------------------------------------------------------------
(* Signing and verifying under a canonicalization profile *)

MaxTamper == 2

SignPaths    == {"/a", "/ab"}
SignQueries  == {"", "b"}
SignHeaders  == {"", "1"}

\* The requests a client signs.
SignRequests ==
    [method : Methods, path : SignPaths, query : SignQueries,
     hdr : [HeaderKeys -> SignHeaders]]

\* The signer: canonicalize, hash and sign with the private key.
SignRequest(priv, r) == WithSign(r, SignASN1(priv, getMessageHashForSigning(r)))

\* Steps 3 to 5 of the verifier on a request whose signature header decodes.
VerifySignature(r, pubKey) == VerifyASN1(pubKey, getMessageHashForSigning(r), r.sign)

\* The fields in which two requests differ.
FieldsChanged(a, b) ==
    {f \in {"method", "path", "query"} : a[f] # b[f]}
        \cup {k \in HeaderKeys : a.hdr[k] # b.hdr[k]}

\* Somebody on the way changes one field of the signed request.
Tamper ==
    /\ verdict = "none"
    /\ \E c \in { [candReq EXCEPT !.method = v] : v \in Methods }
             \cup { [candReq EXCEPT !.path = v] : v \in SignPaths }
             \cup { [candReq EXCEPT !.query = v] : v \in SignQueries }
             \cup { [candReq EXCEPT !.hdr[k] = v] : k \in HeaderKeys, v \in SignHeaders } :
         /\ c # candReq
         /\ Cardinality(FieldsChanged(signedReq, c)) <= MaxTamper
         /\ candReq' = c
    /\ UNCHANGED <<signedReq, verdict>>

\* The verifier checks the candidate's signature.
VerifyCandidate ==
    /\ verdict = "none"
    /\ verdict' = IF VerifySignature(candReq, PubKey) THEN "accept" ELSE "reject"
    /\ UNCHANGED <<signedReq, candReq>>

InitSign ==
    /\ pkg \in Packages
    /\ signedReq \in {SignRequest(PubKey, r) : r \in SignRequests}
    /\ candReq = signedReq
    /\ verdict = "none"
    /\ routes = <<>> /\ pc = <<>> /\ req = <<>> /\ ctx = <<>> /\ resp = <<>>
    /\ panicking = <<>> /\ invoked = <<>> /\ outcome = <<>> /\ lastLog = <<>>
    /\ vreq = 0 /\ vorig = 0 /\ vsteps = <<>> /\ vresp = NilResponse /\ vdone = FALSE
    /\ objects = {} /\ op = 0 /\ result = 0

NextSign ==
    \/ /\ Tamper          /\ UNCHANGED <<pkg, routerVars, verifyVars, s3Vars>>
    \/ /\ VerifyCandidate /\ UNCHANGED <<pkg, routerVars, verifyVars, s3Vars>>

SpecSign == InitSign /\ [][NextSign]_vars

\* The fields the profile in use canonicalizes.
ProfileFields == {"method", "path", "query"} \cup ProfileHeaders

\* C4: with an ideal hash and ideal ECDSA, a request signed under a profile
\* verifies when presented unmodified, and is rejected whenever it differs from
\* the signed request in at least one field the profile canonicalizes.
C4_TamperedRequestRejected ==
    verdict # "none" =>
        LET changed == FieldsChanged(signedReq, candReq) \cap ProfileFields
        IN  /\ changed = {} => verdict = "accept"
            /\ changed # {} => verdict = "reject"

\* The half of C4 that holds: an unmodified request verifies.
UnmodifiedRequestVerifies ==
    (verdict # "none" /\ FieldsChanged(signedReq, candReq) \cap ProfileFields = {})
        => verdict = "accept"

----------------------------------------------------------------------------
(* S3Bucket.Delete and S3Bucket.BatchDelete *)

MaxIds == 3
WaitSeconds == 5

Ids == {"a", "b", "c"}
Range(seq) == {seq[i] : i \in 1 .. Len(seq)}
IdLists == UNION {[1 .. n -> Ids] : n \in 0 .. MaxIds}

\* An error value: its operation prefix ("nil" for no error) and the ids it names.
NilError == [err |-> "nil", ids |-> {}]
Errorf(prefix, ids) == [err |-> prefix, ids |-> ids]
Pending == [err |-> "pending", ids |-> {}]

Idle ==
    [name |-> "none", ids |-> <<>>, pc |-> "idle", waitFor |-> "", elapsed |-> 0,
     calls |-> <<>>, accepted |-> FALSE, deleted |-> {}, lastPoll |-> "none"]

\* AfterDeleteObject with the error of DeleteObject dropped.
AfterDeleteObjectIgnoringError(ok) == "waiting"

\* Delete, lines 114-116: a failed DeleteObject ends the operation.
AfterDeleteObject(ok) == IF ok THEN "waiting" ELSE "failed"

\* The waiter's deadline: the wait given to Wait, five seconds.
WaiterGivesUp(elapsed) == elapsed >= WaitSeconds

\* BatchDelete, lines 149-161: what the operation does once DeleteObjects has
\* succeeded and reported the set `deleted`: return nil, return the error
\* naming the ids left, or go on to wait.
AfterDeleteObjects(ids, deleted) ==
    IF Cardinality(deleted) = 0 THEN [next |-> "return", error |-> NilError]
    ELSE IF Cardinality(deleted) # Len(ids) /\ Range(ids) \ deleted # {}
    THEN [next |-> "return",
          error |-> Errorf("some ids cannot be deleted", Range(ids) \ deleted)]
    ELSE [next |-> "wait", error |-> Pending]

\* Delete, lines 109-116: the DeleteObject call. The backend refuses it or
\* accepts it; an accepted delete takes effect on the backend later.
DeleteCall ==
    /\ op.pc = "idle"
    /\ \E id \in Ids, ok \in BOOLEAN :
         LET started == [Idle EXCEPT !.name = "Delete", !.ids = <<id>>,
                                     !.calls = <<"DeleteObject">>]
         IN  IF AfterDeleteObject(ok) = "waiting"
             THEN /\ op' = [started EXCEPT !.pc = "waiting", !.waitFor = id,
                                           !.accepted = ok]
                  /\ objects' = IF ok
                                THEN [objects EXCEPT !.removing = @ \cup {id}]
                                ELSE objects
                  /\ result' = Pending
             ELSE /\ op' = [started EXCEPT !.pc = "done"]
                  /\ objects' = objects
                  /\ result' = Errorf("s3.DeleteObject", {})

\* BatchDelete, lines 128-161: the empty list returns at once; otherwise the
\* DeleteObjects call, which fails or reports a set of the ids deleted.
BatchDeleteCall ==
    /\ op.pc = "idle"
    /\ \E ids \in IdLists :
         LET started == [Idle EXCEPT !.name = "BatchDelete", !.ids = ids] IN
         IF Len(ids) = 0
         THEN /\ op' = [started EXCEPT !.pc = "done"]
              /\ result' = NilError
              /\ objects' = objects
         ELSE \/ /\ op' = [started EXCEPT !.pc = "done", !.calls = <<"DeleteObjects">>]
                 /\ result' = Errorf("s3.DeleteObjects", {})
                 /\ objects' = objects
              \/ \E deleted \in SUBSET Range(ids) :
                   LET after == AfterDeleteObjects(ids, deleted) IN
                   /\ objects' = [objects EXCEPT !.removing = @ \cup deleted]
                   /\ op' = [started EXCEPT
                               !.calls = <<"DeleteObjects">>,
                               !.accepted = TRUE,
                               !.deleted = deleted,
                               !.pc = IF after.next = "wait" THEN "waiting" ELSE "done",
                               !.waitFor = IF after.next = "wait" THEN ids[1] ELSE ""]
                   /\ result' = after.error

\* objNotExistsWaiter.Wait, one poll: HeadObject finds the object absent (the
\* wait succeeds), fails, or finds it present, and then the waiter sleeps or,
\* its time used up, gives up.
WaiterPoll ==
    /\ op.pc = "waiting"
    /\ LET polled == [op EXCEPT !.calls = Append(@, "HeadObject")] IN
       \/ /\ op.waitFor \notin objects.present
          /\ op' = [polled EXCEPT !.pc = "done", !.lastPoll = "absent"]
          /\ result' = NilError
       \/ /\ op.waitFor \in objects.present
          /\ IF WaiterGivesUp(op.elapsed)
             THEN /\ op' = [polled EXCEPT !.pc = "done", !.lastPoll = "present"]
                  /\ result' = Errorf("s3.ObjectNotExistsWaiter.Wait", {})
             ELSE /\ op' = [polled EXCEPT !.elapsed = @ + 1, !.lastPoll = "present"]
                  /\ result' = result
       \/ /\ op' = [polled EXCEPT !.pc = "done", !.lastPoll = "error"]
          /\ result' = Errorf("s3.ObjectNotExistsWaiter.Wait", {})
    /\ UNCHANGED objects

\* The backend carries out an accepted delete.
BackendRemoves ==
    /\ \E id \in objects.removing :
         objects' = [present |-> objects.present \ {id},
                     removing |-> objects.removing \ {id}]
    /\ UNCHANGED <<op, result>>

InitS3 ==
    /\ objects \in [present : SUBSET Ids, removing : {{}}]
    /\ op = Idle
    /\ result = Pending
    /\ pkg = "awskit"
    /\ routes = <<>> /\ pc = <<>> /\ req = <<>> /\ ctx = <<>> /\ resp = <<>>
    /\ panicking = <<>> /\ invoked = <<>> /\ outcome = <<>> /\ lastLog = <<>>
    /\ vreq = 0 /\ vorig = 0 /\ vsteps = <<>> /\ vresp = NilResponse /\ vdone = FALSE
    /\ signedReq = 0 /\ candReq = 0 /\ verdict = "none"

WaiterStep == WaiterPoll /\ UNCHANGED <<pkg, routerVars, verifyVars, signVars>>

NextS3 ==
    \/ /\ DeleteCall      /\ UNCHANGED <<pkg, routerVars, verifyVars, signVars>>
    \/ /\ BatchDeleteCall /\ UNCHANGED <<pkg, routerVars, verifyVars, signVars>>
    \/ WaiterStep
    \/ /\ BackendRemoves  /\ UNCHANGED <<pkg, routerVars, verifyVars, signVars>>

\* The goroutine running the operation keeps running: a waiter that can poll
\* does poll.
SpecS3 == InitS3 /\ [][NextS3]_vars /\ WF_vars(WaiterStep)

Distinct(seq) == Cardinality(Range(seq)) = Len(seq)

\* C8: BatchDelete of N distinct ids whose DeleteObjects call succeeds and
\* reports M of them deleted returns, for every M < N, an error naming exactly
\* the N - M ids not reported; it returns no error only if M = N, the empty
\* list included, for which it calls the backend not at all.
C8_BatchDeleteReportsUndeleted ==
    (op.name = "BatchDelete" /\ op.pc = "done" /\ Distinct(op.ids)) =>
        LET N == Len(op.ids)
            M == Cardinality(op.deleted)
        IN  /\ N = 0 => result = NilError /\ op.calls = <<>>
            /\ (op.accepted /\ M < N) =>
                  result = Errorf("some ids cannot be deleted", Range(op.ids) \ op.deleted)
            /\ result = NilError => (M = N /\ (N > 0 => op.accepted))

\* C9, the safety half: a finished Delete has no error only if DeleteObject
\* was accepted and the last poll found the object absent; a refused
\* DeleteObject and a wait that ran out with the object present are errors
\* carrying the failing operation's name; the wait never passes five seconds.
DeleteOutcome ==
    op.name = "Delete" =>
        /\ op.elapsed <= WaitSeconds
        /\ op.pc = "done" =>
              /\ result # Pending
              /\ result = NilError =>
                    /\ op.accepted
                    /\ op.lastPoll = "absent"
                    /\ Len(op.calls) >= 2
                    /\ op.calls[1] = "DeleteObject"
                    /\ op.calls[Len(op.calls)] = "HeadObject"
              /\ ~op.accepted => result = Errorf("s3.DeleteObject", {})
              /\ (op.accepted /\ op.lastPoll # "absent") =>
                    result = Errorf("s3.ObjectNotExistsWaiter.Wait", {})

\* C9: Delete returns no error only after an accepted delete request and a
\* poll that saw the object absent, returns a named error when the request
\* fails or the five-second wait runs out, and always returns.
C9_DeleteWaitsBounded ==
    /\ []DeleteOutcome
    /\ (op.name = "Delete" /\ op.pc = "waiting") ~> (op.name = "Delete" /\ op.pc = "done")

C9_Witness ==
    /\ op.name = "Delete" /\ op.pc = "done" /\ op.accepted
    /\ op.lastPoll = "present" /\ op.elapsed = WaitSeconds
    /\ result = Errorf("s3.ObjectNotExistsWaiter.Wait", {})

============================================================================
